---- MODULE Spec2Model ----
(***************************************************************************)
(* NCBI2wikidata: main.go (LoadLicenses, main) and efetch.go (the fetched  *)
(* article structure, EFetchHistoryRequest.Do).  Go strings are TLA+       *)
(* strings; a Go map is a function whose DOMAIN is its key set; a Go slice *)
(* is a sequence.                                                          *)
(***************************************************************************)
EXTENDS Integers, Sequences, FiniteSets, TLC

\* Bounds of the model.
MaxLines == 2
MaxArticles == 2

(***************************************************************************)
(* Go standard-library functions used by the code, computed on strings.    *)
(***************************************************************************)

\* The index of the first occurrence, from position i on, of the one-character
\* string c in s; 0 if there is none.
RECURSIVE IndexFrom(_, _, _)
IndexFrom(s, c, i) ==
  IF i > Len(s) THEN 0
  ELSE IF SubSeq(s, i, i) = c THEN i
  ELSE IndexFrom(s, c, i + 1)

\* strings.IndexByte(s, c) + 1
IndexOf(s, c) == IndexFrom(s, c, 1)

\* strings.Split(s, sep) for a one-character separator.
RECURSIVE Split(_, _)
Split(s, sep) ==
  LET i == IndexOf(s, sep)
  IN  IF i = 0 THEN << s >>
      ELSE << SubSeq(s, 1, i - 1) >> \o Split(SubSeq(s, i + 1, Len(s)), sep)

\* strings.TrimSuffix(s, suffix)
TrimSuffix(s, suffix) ==
  IF Len(s) >= Len(suffix) /\ SubSeq(s, Len(s) - Len(suffix) + 1, Len(s)) = suffix
  THEN SubSeq(s, 1, Len(s) - Len(suffix))
  ELSE s

\* strings.TrimPrefix(s, prefix)
TrimPrefix(s, prefix) ==
  IF Len(s) >= Len(prefix) /\ SubSeq(s, 1, Len(prefix)) = prefix
  THEN SubSeq(s, Len(prefix) + 1, Len(s))
  ELSE s

\* m[k] of a Go map[string]string: the zero value "" for a missing key.
MapGet(m, k) == IF k \in DOMAIN m THEN m[k] ELSE ""

\* m[k] = v
MapPut(m, k, v) == [x \in (DOMAIN m) \cup {k} |-> IF x = k THEN v ELSE m[x]]

EmptyMap == [x \in {} |-> ""]

\* fmt.Sprintf("%d", n)
Itoa(n) == ToString(n)

Range(s) == {s[i] : i \in 1..Len(s)}

(***************************************************************************)
(* main.go: CC_LICENSE_ITEM_IDS                                            *)
(***************************************************************************)
CC_LICENSE_ITEM_IDS ==
  [l \in {"CC0", "CC BY", "CC BY-NC-ND", "CC BY-NC", "CC BY 2.5", "CC BY 4.0"} |->
     CASE l = "CC0" -> "Q6938433"
       [] l = "CC BY" -> "Q6905323"
       [] l = "CC BY-NC-ND" -> "Q6937225"
       [] l = "CC BY-NC" -> "Q6936496"
       [] l = "CC BY 2.5" -> "Q18810333"
       [] l = "CC BY 4.0" -> "Q20007257"]

(***************************************************************************)
(* main.go: LoadLicenses                                                   *)
(***************************************************************************)

\* The body of the read loop for one line returned by ReadString without error.
LoadLine(lookup, line) ==
  LET parts == Split(line, "\t")
  IN  IF Len(parts) # 5 THEN lookup
      ELSE LET pmid == parts[4]
               license == TrimSuffix(parts[5], "\n")
               split_pmid == Split(pmid, ":")
               l1 == IF Len(split_pmid) = 2
                     THEN MapPut(lookup, split_pmid[2], license)
                     ELSE lookup
           IN  IF Len(parts[3]) > 0 THEN MapPut(l1, parts[3], license) ELSE l1

\* The read loop, on a file that opened and is read without an I/O error:
\* ReadString('\n') returns the text up to and including the next
\* newline; when the rest of the file holds no newline it returns io.EOF (with
\* the rest as data) and the loop breaks before looking at the data.
RECURSIVE ReadLoop(_, _)
ReadLoop(lookup, rest) ==
  LET i == IndexOf(rest, "\n")
  IN  IF i = 0 THEN lookup
      ELSE ReadLoop(LoadLine(lookup, SubSeq(rest, 1, i)), SubSeq(rest, i + 1, Len(rest)))

LoadLicenses(content) == ReadLoop(EmptyMap, content)

(***************************************************************************)
(* efetch.go: the structure the fetch hands to main.                       *)
(***************************************************************************)
ArticleID(id, idType) == [ID |-> id, IDType |-> idType]

MeshDescriptorName(name, meshID, major) ==
  [Name |-> name, MeshID |-> meshID, MajorTopicYN |-> major]

MeshQualifierName(name, meshID, major) ==
  [Name |-> name, MeshID |-> meshID, MajorTopicYN |-> major]

MeshHeading(descriptor, qualifiers) ==
  [DescriptorName |-> descriptor, QualifierNames |-> qualifiers]

PubDate(year, month) == [Year |-> year, Month |-> month]

ArticleDate(year, month) == [Year |-> year, Month |-> month]

Journal(title, issn, pubDate) ==
  [Title |-> title, ISSN |-> issn, JournalIssue |-> [PubDate |-> pubDate]]

Article(title, journal, pubTypes, articleDate) ==
  [ArticleTitle |-> title, Journal |-> journal,
   PublicationTypeList |-> [PublicationTypes |-> pubTypes],
   ArticleDate |-> articleDate]

PubmedArticle(pmid, bodies, headings, ids) ==
  [MedlineCitation |-> [PMID |-> pmid, Article |-> bodies,
                        MeshHeadingList |-> [MeshHeadings |-> headings]],
   PubMedData |-> [ArticleIDList |-> [ArticleIDs |-> ids]]]

(***************************************************************************)
(* main.go: Record, and the body of the normalization loop.                *)
(***************************************************************************)
Record(title, subjects, pubtype, pubdate, publication, issn, license, pmid, pmcid) ==
  [Title |-> title, MainSubjects |-> subjects, PublicationType |-> pubtype,
   PublicationDate |-> pubdate, Publication |-> publication, ISSN |-> issn,
   License |-> license, PMID |-> pmid, PMCID |-> pmcid]

\* "Is there a PMCID for this paper": the scan breaks at the first "pmc" entry.
RECURSIVE ScanArticleIDs(_)
ScanArticleIDs(ids) ==
  IF Len(ids) = 0 THEN ""
  ELSE IF Head(ids).IDType = "pmc" THEN TrimPrefix(Head(ids).ID, "PMC")
  ELSE ScanArticleIDs(Tail(ids))

ExtractPMCID(article) == ScanArticleIDs(article.PubMedData.ArticleIDList.ArticleIDs)

\* The license of an article: by PMID, and by PMCID while the license is "".
LookupLicense(license_lookup, pmid, pmcid) ==
  LET byPMID == IF pmid \in DOMAIN license_lookup THEN license_lookup[pmid] ELSE ""
  IN  IF byPMID = ""
      THEN IF pmcid \in DOMAIN license_lookup THEN license_lookup[pmcid] ELSE byPMID
      ELSE byPMID

\* major := descriptor flag; for each qualifier: major = major || qualifier flag
RECURSIVE FoldQualifiers(_, _)
FoldQualifiers(major, quals) ==
  IF Len(quals) = 0 THEN major
  ELSE FoldQualifiers(major \/ Head(quals).MajorTopicYN = "Y", Tail(quals))

\* IsMajor without the loop over the qualifiers.
IsMajorDescriptorOnly(mesh) == mesh.DescriptorName.MajorTopicYN = "Y"

IsMajor(mesh) == FoldQualifiers(mesh.DescriptorName.MajorTopicYN = "Y", mesh.QualifierNames)

\* The descriptors appended to subjects, in the order of the heading list.
RECURSIVE MajorSubjects(_)
MajorSubjects(headings) ==
  IF Len(headings) = 0 THEN << >>
  ELSE (IF IsMajor(Head(headings)) THEN << Head(headings).DescriptorName >> ELSE << >>)
       \o MajorSubjects(Tail(headings))

MeshIDs(subjects) == [i \in 1..Len(subjects) |-> subjects[i].MeshID]

\* PublicationDateOf falling back only when both the year and the month are missing.
PublicationDateOfBothMissing(body) ==
  LET p == body.Journal.JournalIssue.PubDate
      a == body.ArticleDate
  IN  IF p.Year = 0 /\ p.Month = ""
      THEN Itoa(a.Month) \o "-" \o Itoa(a.Year)
      ELSE p.Month \o "-" \o Itoa(p.Year)

\* pubdate of Article[0]
PublicationDateOf(body) ==
  LET p == body.Journal.JournalIssue.PubDate
      a == body.ArticleDate
  IN  IF p.Year = 0 \/ p.Month = ""
      THEN Itoa(a.Month) \o "-" \o Itoa(a.Year)
      ELSE p.Month \o "-" \o Itoa(p.Year)

PublicationTypeOf(body) ==
  IF Len(body.PublicationTypeList.PublicationTypes) > 0
  THEN body.PublicationTypeList.PublicationTypes[1]
  ELSE ""

(***************************************************************************)
(* main.go: the output rows.                                               *)
(***************************************************************************)
HeaderLine ==
  "Title\tItem\tPMID\tPMCID\tLicense\tLicense Item\tMain Subjects\tPublication Date\tPublication\tISSN\tISSN item\tPublication Type\n"

\* SubjectItems with the disease item put first.
SubjectItemsDiseaseFirst(meshID, drugs, diseases) ==
  LET l == MapGet(diseases, meshID)
      d == MapGet(drugs, meshID)
  IN  IF d # "" THEN (IF l # "" THEN l \o ", " ELSE l) \o d ELSE l

\* The annotation of one subject: l is the drug item, then ", " and the disease item.
SubjectItems(meshID, drugs, diseases) ==
  LET l == MapGet(drugs, meshID)
      d == MapGet(diseases, meshID)
  IN  IF d # "" THEN (IF l # "" THEN l \o ", " ELSE l) \o d ELSE l

\* The loop over record.MainSubjects from index idx (1-based here) on.
RECURSIVE MainSubjectsColumn(_, _, _, _, _)
MainSubjectsColumn(main_subjects, subjects, idx, drugs, diseases) ==
  IF idx > Len(subjects) THEN main_subjects
  ELSE LET subject == subjects[idx]
           sep == IF idx # 1 THEN "; " ELSE ""
           l == SubjectItems(subject.MeshID, drugs, diseases)
           ann == IF l # "" THEN " (" \o l \o ")" ELSE ""
       IN  MainSubjectsColumn(main_subjects \o sep \o subject.Name \o ann,
                              subjects, idx + 1, drugs, diseases)

FormatRow(record, pmcids, issns, drugs, diseases) ==
  LET item == MapGet(pmcids, record.PMCID)
      issn_item == MapGet(issns, record.ISSN)
      main_subjects == MainSubjectsColumn("", record.MainSubjects, 1, drugs, diseases)
  IN  record.Title \o "\t" \o item \o "\t" \o record.PMID \o "\t" \o record.PMCID
      \o "\t" \o record.License \o "\t" \o MapGet(CC_LICENSE_ITEM_IDS, record.License)
      \o "\t" \o main_subjects \o "\t" \o record.PublicationDate
      \o "\t" \o record.Publication \o "\t" \o record.ISSN \o "\t" \o issn_item
      \o "\t" \o record.PublicationType \o "\n"

(***************************************************************************)
(* The inputs of a run: the license file, the articles the fetch returns,  *)
(* the knowledge base behind the four resolution calls, the API key.       *)
(***************************************************************************)

\* Lines of an oa_file_list.txt, without their newline.
LicenseLines ==
  { "p\tc\tPMC17774\tPMID:11056661\tCC BY",   \* the example of the source comment
    "p\tc\t17774\tPMID:\tCC0",                \* empty value after the colon
    "p\tc\t\tPMID:9\t",                       \* no PMCID, empty license
    "2019-10-14 08:00:00",                    \* the first line: a date
    "p\tc\tPMC17774\t\tCC BY-NC" }            \* no PMID

SeqsUpTo(S, n) == UNION { [1..k -> S] : k \in 0..n }

\* The lines joined by newlines; the last line ends in a newline iff terminated.
RECURSIVE FileOf(_, _)
FileOf(lines, terminated) ==
  IF Len(lines) = 0 THEN ""
  ELSE IF Len(lines) = 1 THEN Head(lines) \o (IF terminated THEN "\n" ELSE "")
  ELSE Head(lines) \o "\n" \o FileOf(Tail(lines), terminated)

Files == { FileOf(ls, t) : ls \in SeqsUpTo(LicenseLines, MaxLines), t \in BOOLEAN }

FewFiles ==
  { "2019-10-14 08:00:00\np\tc\tPMC17774\tPMID:11056661\tCC BY\n",
    "p\tc\t17774\tPMID:\tCC0\np\tc\t\tPMID:9\t\n" }

TheJournal(issn, pubDate) == Journal("Arthritis Res.", issn, pubDate)

BaseBody == Article("T1", TheJournal("1465-9905", PubDate(1999, "Oct")),
                    << "Review", "Journal Article" >>, ArticleDate(2020, 5))

IDLists ==
  { << >>,
    << ArticleID("9", "pubmed"), ArticleID("PMC17774", "pmc") >>,
    << ArticleID("PMC5", "pmc"), ArticleID("PMC17774", "pmc") >>,
    << ArticleID("PMC", "pmc") >> }

D1 == MeshDescriptorName("Rett Syndrome", "D015518", "Y")
D2 == MeshDescriptorName("Valproic Acid", "D014635", "N")
D3 == MeshDescriptorName("Humans", "D006801", "N")
QY == MeshQualifierName("therapeutic use", "Q000627", "Y")
QN == MeshQualifierName("genetics", "Q000235", "N")

HeadingLists ==
  { << >>,
    << MeshHeading(D1, << >>) >>,
    << MeshHeading(D3, << QN >>), MeshHeading(D2, << QN, QY >>) >>,
    << MeshHeading(D2, << QY >>), MeshHeading(D3, << >>), MeshHeading(D1, << QN >>) >>,
    << MeshHeading(D1, << >>), MeshHeading(D1, << QY >>) >> }

\* Articles that differ in their identifiers.
IdArticles ==
  { PubmedArticle(pmid, << BaseBody >>, << MeshHeading(D1, << >>) >>, ids) :
      pmid \in {"11056661", "9"}, ids \in IDLists }

\* Articles that differ in their subject headings.
HeadingArticles ==
  { PubmedArticle("11056661", << BaseBody >>, hs, << >>) : hs \in HeadingLists }

\* Articles that differ in their dates.
DateArticles ==
  { PubmedArticle("9", << Article("T2", TheJournal("1465-9905", PubDate(y, m)),
                                  << "Review" >>, a) >>, << >>,
                  << ArticleID("PMC17774", "pmc") >>) :
      y \in {0, 1999}, m \in {"", "Oct"}, a \in {ArticleDate(2020, 5)} }

\* No ISSN and no publication type; no Article element; two Article elements.
BodyArticles ==
  { PubmedArticle("11056661", bodies, << >>, << >>) :
      bodies \in { << Article("T3", TheJournal("", PubDate(0, "")), << >>, ArticleDate(0, 0)) >>,
                   << >>,
                   << BaseBody, Article("T4", TheJournal("", PubDate(2001, "Jan")),
                                        << >>, ArticleDate(0, 0)) >> } }

Articles == IdArticles \cup HeadingArticles \cup DateArticles \cup BodyArticles

DrugItems == [id \in {"D015518", "D014635"} |->
                IF id = "D015518" THEN "Q1" ELSE "Q3"]
DiseaseItems == [id \in {"D015518", "D014635"} |->
                   IF id = "D015518" THEN "Q2" ELSE "Q4"]
PMCItems == [id \in {"17774"} |-> "Q33"]
ISSNItems == [id \in {"1465-9905"} |-> "Q44"]

Restrict(m, keys) == [x \in keys |-> m[x]]

SubMaps(m) == { Restrict(m, keys) : keys \in SUBSET (DOMAIN m) }

\* One knowledge base: what each resolution function knows.
KB(pmc, issn, drug, disease) == [pmc |-> pmc, issn |-> issn, drug |-> drug, disease |-> disease]

KB0 == KB(PMCItems, ISSNItems, Restrict(DrugItems, {"D014635"}), DiseaseItems)

KBs == { KB(p, i, dr, di) : p \in SubMaps(PMCItems), i \in SubMaps(ISSNItems),
                            dr \in SubMaps(DrugItems), di \in SubMaps(DiseaseItems) }

VARIABLES
  file,                   \* the content of oa_file_list.txt
  api_key,                \* os.Getenv("NCBI_API_KEY")
  remote,                 \* the articles PubMed holds for the query
  kb,                     \* the knowledge base behind the resolution calls
  pc,                     \* the position in main
  license_lookup,
  errs,                   \* err, rerr, ferr, perr, ierr, d1err, d2err, e of main
  fetch_resp,             \* fetch_resp.Articles
  idx,                    \* the articles the normalization loop has passed
  records, pmcid_list, issn_list, main_subject_list,
  items,                  \* the four *_wikidata_items maps
  calls,                  \* the resolution calls issued so far, with their arguments
  created,                \* results.csv has been created
  out,                    \* the lines written to results.csv
  ridx                    \* the records the output loop has passed

inputs == << file, api_key, remote, kb >>
worklists == << pmcid_list, issn_list, main_subject_list >>
output == << created, out, ridx >>
vars == << file, api_key, remote, kb, pc, license_lookup, errs, fetch_resp, idx,
           records, pmcid_list, issn_list, main_subject_list, items, calls,
           created, out, ridx >>

ErrNames == {"err", "rerr", "ferr", "perr", "ierr", "d1err", "d2err", "e"}

\* The state main starts in, for given inputs.
Start(f, key, arts, k) ==
  /\ file = f
  /\ api_key = key
  /\ remote = arts
  /\ kb = k
  /\ pc = "LoadLicenses"
  /\ license_lookup = EmptyMap
  /\ errs = [n \in ErrNames |-> "unset"]
  /\ fetch_resp = << >>
  /\ idx = 0
  /\ records = << >>
  /\ pmcid_list = << >>
  /\ issn_list = << >>
  /\ main_subject_list = << >>
  /\ items = [pmcid |-> EmptyMap, issn |-> EmptyMap, drug |-> EmptyMap, disease |-> EmptyMap]
  /\ calls = << >>
  /\ created = FALSE
  /\ out = << >>
  /\ ridx = 0

\* Every license file against single articles; every article list against a few
\* files; every knowledge base against the articles with subject headings.
Init ==
  \/ \E f \in Files, a \in IdArticles : Start(f, "key", << a >>, KB0)
  \/ \E f \in FewFiles, key \in {"", "key"}, arts \in SeqsUpTo(Articles, MaxArticles) :
       Start(f, key, arts, KB0)
  \/ \E f \in FewFiles, a \in HeadingArticles, k \in KBs : Start(f, "key", << a >>, k)

(***************************************************************************)
(* main.go: main, step by step.                                            *)
(***************************************************************************)

\* AfterError with the error left unchecked: main goes on.
ContinueAfterError(next) == next

\* if err != nil { panic(err) }: where main is after a failed call that would
\* otherwise have gone on at next.
AfterError(next) == "panic"

SetErr(name, v) == errs' = [errs EXCEPT ![name] = v]

LoadLicensesOk ==
  /\ pc = "LoadLicenses"
  /\ license_lookup' = LoadLicenses(file)
  /\ SetErr("err", "nil")
  /\ pc' = "Search"
  /\ UNCHANGED << inputs, fetch_resp, idx, records, worklists, items, calls, output >>

\* os.Open fails
LoadLicensesErr ==
  /\ pc = "LoadLicenses"
  /\ SetErr("err", "error")
  /\ pc' = AfterError("Search")
  /\ UNCHANGED << inputs, license_lookup, fetch_resp, idx, records, worklists, items,
                  calls, output >>

SearchOk ==
  /\ pc = "Search"
  /\ SetErr("rerr", "nil")
  /\ pc' = "Fetch"
  /\ UNCHANGED << inputs, license_lookup, fetch_resp, idx, records, worklists, items,
                  calls, output >>

SearchErr ==
  /\ pc = "Search"
  /\ SetErr("rerr", "error")
  /\ pc' = AfterError("Fetch")
  /\ UNCHANGED << inputs, license_lookup, fetch_resp, idx, records, worklists, items,
                  calls, output >>

\* efetch.go, Do: with an API key, a request answered 200 and decoded.
FetchOk ==
  /\ pc = "Fetch"
  /\ api_key # ""
  /\ fetch_resp' = remote
  /\ SetErr("ferr", "nil")
  /\ pc' = "Normalize"
  /\ UNCHANGED << inputs, license_lookup, idx, records, worklists, items, calls, output >>

\* efetch.go, Do: no API key, or the request, the status or the decoding fails.
FetchErr ==
  /\ pc = "Fetch"
  /\ SetErr("ferr", "error")
  /\ pc' = AfterError("Normalize")
  /\ UNCHANGED << inputs, license_lookup, fetch_resp, idx, records, worklists, items,
                  calls, output >>

\* LoopDone with the loop left after its first pass.
LoopDoneAfterFirstPass == idx >= 1 \/ idx = Len(fetch_resp)

\* for _, article := range fetch_resp.Articles has passed every article
LoopDone == idx = Len(fetch_resp)

\* pmcid_list after the first lines of the loop body
AppendPMCID(list, pmcid) == IF pmcid # "" THEN Append(list, pmcid) ELSE list

\* One pass of the loop body that ends at "continue": no license.
NormalizeDrop ==
  /\ pc = "Normalize"
  /\ ~LoopDone
  /\ LET article == fetch_resp[idx + 1]
         pmcid == ExtractPMCID(article)
         license == LookupLicense(license_lookup, article.MedlineCitation.PMID, pmcid)
     IN  /\ license = ""
         /\ pmcid_list' = AppendPMCID(pmcid_list, pmcid)
  /\ idx' = idx + 1
  /\ UNCHANGED << inputs, pc, license_lookup, errs, fetch_resp, records, issn_list,
                  main_subject_list, items, calls, output >>

\* One pass of the loop body that appends a Record.
NormalizeAccept ==
  /\ pc = "Normalize"
  /\ ~LoopDone
  /\ LET article == fetch_resp[idx + 1]
         pmcid == ExtractPMCID(article)
         license == LookupLicense(license_lookup, article.MedlineCitation.PMID, pmcid)
         subjects == MajorSubjects(article.MedlineCitation.MeshHeadingList.MeshHeadings)
         body == article.MedlineCitation.Article[1]
         issn == body.Journal.ISSN
     IN  /\ license # ""
         /\ Len(article.MedlineCitation.Article) > 0
         /\ pmcid_list' = AppendPMCID(pmcid_list, pmcid)
         /\ main_subject_list' = main_subject_list \o MeshIDs(subjects)
         /\ issn_list' = IF issn # "" THEN Append(issn_list, issn) ELSE issn_list
         /\ records' = Append(records,
              Record(body.ArticleTitle, subjects, PublicationTypeOf(body),
                     PublicationDateOf(body), body.Journal.Title, issn, license,
                     article.MedlineCitation.PMID, pmcid))
  /\ idx' = idx + 1
  /\ UNCHANGED << inputs, pc, license_lookup, errs, fetch_resp, items, calls, output >>

\* One pass of the loop body on a licensed article without an Article element:
\* Article[0] is out of range and the run panics, the subject ids already appended.
NormalizeIndexPanic ==
  /\ pc = "Normalize"
  /\ ~LoopDone
  /\ LET article == fetch_resp[idx + 1]
         pmcid == ExtractPMCID(article)
         license == LookupLicense(license_lookup, article.MedlineCitation.PMID, pmcid)
         subjects == MajorSubjects(article.MedlineCitation.MeshHeadingList.MeshHeadings)
     IN  /\ license # ""
         /\ Len(article.MedlineCitation.Article) = 0
         /\ pmcid_list' = AppendPMCID(pmcid_list, pmcid)
         /\ main_subject_list' = main_subject_list \o MeshIDs(subjects)
  /\ pc' = "panic"
  /\ UNCHANGED << inputs, license_lookup, errs, fetch_resp, idx, records, issn_list,
                  items, calls, output >>

\* What a resolution function returns for a list of identifiers: the items of
\* those the knowledge base knows; the others are absent.
Resolve(known, ids) == Restrict(known, (DOMAIN known) \cap Range(ids))

\* x_wikidata_items, xerr := F(list), answered
CallOk(at, fn, errName, into, known, list, next) ==
  /\ pc = at
  /\ calls' = Append(calls, [fn |-> fn, ids |-> list])
  /\ items' = [items EXCEPT ![into] = Resolve(known, list)]
  /\ SetErr(errName, "nil")
  /\ pc' = next
  /\ UNCHANGED << inputs, license_lookup, fetch_resp, idx, records, worklists, output >>

\* x_wikidata_items, xerr := F(list), failed
CallErr(at, fn, errName, list, next) ==
  /\ pc = at
  /\ calls' = Append(calls, [fn |-> fn, ids |-> list])
  /\ SetErr(errName, "error")
  /\ pc' = AfterError(next)
  /\ UNCHANGED << inputs, license_lookup, fetch_resp, idx, records, worklists, items,
                  output >>

PMCIDsToWDItemOk ==
  /\ LoopDone
  /\ CallOk("Normalize", "PMCIDsToWDItem", "perr", "pmcid", kb.pmc, pmcid_list,
            "ISSNsToWDItem")

PMCIDsToWDItemErr ==
  /\ LoopDone
  /\ CallErr("Normalize", "PMCIDsToWDItem", "perr", pmcid_list, "ISSNsToWDItem")

ISSNsToWDItemOk ==
  CallOk("ISSNsToWDItem", "ISSNsToWDItem", "ierr", "issn", kb.issn, issn_list,
         "DrugsToWDItem")

ISSNsToWDItemErr ==
  CallErr("ISSNsToWDItem", "ISSNsToWDItem", "ierr", issn_list, "DrugsToWDItem")

DrugsToWDItemOk ==
  CallOk("DrugsToWDItem", "DrugsToWDItem", "d1err", "drug", kb.drug, main_subject_list,
         "DiseasesToWDItem")

DrugsToWDItemErr ==
  CallErr("DrugsToWDItem", "DrugsToWDItem", "d1err", main_subject_list, "DiseasesToWDItem")

DiseasesToWDItemOk ==
  CallOk("DiseasesToWDItem", "DiseasesToWDItem", "d2err", "disease", kb.disease,
         main_subject_list, "Create")

DiseasesToWDItemErr ==
  CallErr("DiseasesToWDItem", "DiseasesToWDItem", "d2err", main_subject_list, "Create")

\* os.Create("results.csv") and the header line
CreateOk ==
  /\ pc = "Create"
  /\ created' = TRUE
  /\ out' = << HeaderLine >>
  /\ SetErr("e", "nil")
  /\ pc' = "Write"
  /\ UNCHANGED << inputs, license_lookup, fetch_resp, idx, records, worklists, items,
                  calls, ridx >>

CreateErr ==
  /\ pc = "Create"
  /\ SetErr("e", "error")
  /\ pc' = AfterError("Write")
  /\ UNCHANGED << inputs, license_lookup, fetch_resp, idx, records, worklists, items,
                  calls, output >>

\* One pass of for _, record := range records
WriteRow ==
  /\ pc = "Write"
  /\ ridx < Len(records)
  /\ out' = Append(out, FormatRow(records[ridx + 1], items.pmcid, items.issn,
                                  items.drug, items.disease))
  /\ ridx' = ridx + 1
  /\ UNCHANGED << inputs, pc, license_lookup, errs, fetch_resp, idx, records, worklists,
                  items, calls, created >>

\* Return with the output loop left before its last pass.
ReturnBeforeLastRow ==
  /\ pc = "Write"
  /\ ridx + 1 >= Len(records)
  /\ pc' = "done"
  /\ UNCHANGED << inputs, license_lookup, errs, fetch_resp, idx, records, worklists,
                  items, calls, output >>

\* main returns; the deferred f.Close() runs
Return ==
  /\ pc = "Write"
  /\ ridx = Len(records)
  /\ pc' = "done"
  /\ UNCHANGED << inputs, license_lookup, errs, fetch_resp, idx, records, worklists,
                  items, calls, output >>

Next ==
  \/ LoadLicensesOk \/ LoadLicensesErr
  \/ SearchOk \/ SearchErr
  \/ FetchOk \/ FetchErr
  \/ NormalizeDrop \/ NormalizeAccept \/ NormalizeIndexPanic
  \/ PMCIDsToWDItemOk \/ PMCIDsToWDItemErr
  \/ ISSNsToWDItemOk \/ ISSNsToWDItemErr
  \/ DrugsToWDItemOk \/ DrugsToWDItemErr
  \/ DiseasesToWDItemOk \/ DiseasesToWDItemErr
  \/ CreateOk \/ CreateErr
  \/ WriteRow
  \/ Return

Spec == Init /\ [][Next]_vars

(***************************************************************************)
(* Properties.                                                             *)
(***************************************************************************)

\* The articles the normalization loop has passed.
Passed == SubSeq(fetch_resp, 1, idx)

\* The article got a non-empty license from the table of this run.
Licensed(a) == LookupLicense(license_lookup, a.MedlineCitation.PMID, ExtractPMCID(a)) # ""

\* The passed articles a Record was appended for, in order.
AcceptedArticles == SelectSeq(Passed, Licensed)

\* The run panicked inside the normalization loop (no call had failed).
LoopPanicked == pc = "panic" /\ \A n \in ErrNames : errs[n] # "error"

Column(row, k) == Split(row, "\t")[k]

RECURSIVE Flatten(_)
Flatten(ss) == IF Len(ss) = 0 THEN << >> ELSE Head(ss) \o Flatten(Tail(ss))

RECURSIVE Join(_, _)
Join(ss, sep) ==
  IF Len(ss) = 0 THEN ""
  ELSE IF Len(ss) = 1 THEN Head(ss)
  ELSE Head(ss) \o sep \o Join(Tail(ss), sep)

\* The id of the first "pmc" entry of the external-id list without its "PMC"
\* prefix, "" when there is no such entry.
FirstPMCID(a) ==
  LET ids == a.PubMedData.ArticleIDList.ArticleIDs
      at == {i \in 1..Len(ids) : ids[i].IDType = "pmc"}
  IN  IF at = {} THEN ""
      ELSE TrimPrefix(ids[CHOOSE i \in at : \A j \in at : i <= j].ID, "PMC")

HasPMCEntry(a) ==
  \E i \in 1..Len(a.PubMedData.ArticleIDList.ArticleIDs) :
    a.PubMedData.ArticleIDList.ArticleIDs[i].IDType = "pmc"

\* The PMID or the extracted PMC id of the article is a key of the table.
HasKey(a) ==
  \/ a.MedlineCitation.PMID \in DOMAIN license_lookup
  \/ FirstPMCID(a) \in DOMAIN license_lookup

\* C1: a Record is produced for an article iff its PMID or its extracted PMC id
\* is a key of the license table, whatever label the key maps to: the Records
\* are those of the passed articles that have a key, in order.
C1_RecordIffKey ==
  LET keyed == SelectSeq(Passed, HasKey)
  IN  /\ Len(records) = Len(keyed)
      /\ \A i \in 1..Len(records) : records[i].PMID = keyed[i].MedlineCitation.PMID

\* The PMC id of a Record is the id of the first "pmc" entry of its article
\* without the "PMC" prefix, "" when there is none.
C2_PMCIDOfRecords ==
  /\ Len(records) = Len(AcceptedArticles)
  /\ \A i \in 1..Len(records) : records[i].PMCID = FirstPMCID(AcceptedArticles[i])

\* A pass of the loop over an article with no "pmc" entry whose PMID is not a
\* key of the table appends no Record.
C2_NoPMCEntryNoFallback ==
  (/\ pc = "Normalize"
   /\ idx < Len(fetch_resp)
   /\ ~HasPMCEntry(fetch_resp[idx + 1])
   /\ fetch_resp[idx + 1].MedlineCitation.PMID \notin DOMAIN license_lookup)
    => records' = records

\* C2: every Record carries the id of the first "pmc" entry of its article,
\* prefix removed, and an article with no "pmc" entry is accepted through its
\* PMID only: the two parts above, in every state and at every step.
C2_FirstPMCEntryOrPMIDOnly == [](C2_PMCIDOfRecords) /\ [][C2_NoPMCEntryNoFallback]_vars

\* The lines of a file, each without its newline, the last one terminated or not.
FileLines(content) ==
  LET pieces == Split(content, "\n")
  IN  IF pieces[Len(pieces)] = "" THEN SubSeq(pieces, 1, Len(pieces) - 1) ELSE pieces

RECURSIVE RegisterLines(_, _)
RegisterLines(lookup, lines) ==
  IF Len(lines) = 0 THEN lookup
  ELSE RegisterLines(LoadLine(lookup, Head(lines)), Tail(lines))

\* C3: the table LoadLicenses returns holds exactly what the five-field lines
\* of the file register, a later line winning, whether or not a line is
\* terminated by a newline.
C3_TableOfEveryLine ==
  errs["err"] = "nil" => license_lookup = RegisterLines(EmptyMap, FileLines(file))

\* The headings that are major: the descriptor's flag is "Y" or that of at
\* least one qualifier.
MajorByFlag(h) ==
  \/ h.DescriptorName.MajorTopicYN = "Y"
  \/ \E j \in 1..Len(h.QualifierNames) : h.QualifierNames[j].MajorTopicYN = "Y"

MajorDescriptors(a) ==
  LET major == SelectSeq(a.MedlineCitation.MeshHeadingList.MeshHeadings, MajorByFlag)
  IN  [i \in 1..Len(major) |-> major[i].DescriptorName]

\* C4: the MainSubjects of each Record are the descriptors of the major headings
\* of its article, in the order of the heading list, and the subject-id worklist
\* is the ids of these, Record after Record (unless the run panicked in the loop).
C4_MajorSubjects ==
  /\ Len(records) = Len(AcceptedArticles)
  /\ \A i \in 1..Len(records) : records[i].MainSubjects = MajorDescriptors(AcceptedArticles[i])
  /\ ~LoopPanicked =>
       main_subject_list =
         Flatten([i \in 1..Len(AcceptedArticles) |-> MeshIDs(MajorDescriptors(AcceptedArticles[i]))])

\* A Record with a subject that is major by a qualifier alone, from an article
\* that also has a heading that is not major.
C4_Witness ==
  \E i \in 1..Len(records) :
    /\ Len(AcceptedArticles) = Len(records)
    /\ D2 \in Range(records[i].MainSubjects)
    /\ \E h \in Range(AcceptedArticles[i].MedlineCitation.MeshHeadingList.MeshHeadings) :
         h.DescriptorName = D3
    /\ "D014635" \in Range(main_subject_list)

\* The display date: from the issue's date when it has a year and a month label,
\* from the article's date otherwise.
DisplayDate(body) ==
  LET p == body.Journal.JournalIssue.PubDate
      a == body.ArticleDate
  IN  IF p.Year # 0 /\ p.Month # ""
      THEN Join(<< p.Month, ToString(p.Year) >>, "-")
      ELSE Join(<< ToString(a.Month), ToString(a.Year) >>, "-")

\* C5: the PublicationDate of each Record is the display date of the first
\* Article element of its article.
C5_PublicationDate ==
  /\ Len(records) = Len(AcceptedArticles)
  /\ \A i \in 1..Len(records) :
       records[i].PublicationDate = DisplayDate(AcceptedArticles[i].MedlineCitation.Article[1])

\* Issue date {year 0, month ""} and article date {2020, 5} give "5-2020".
C5_Witness ==
  \E i \in 1..Len(records) :
    /\ Len(AcceptedArticles) = Len(records)
    /\ AcceptedArticles[i].MedlineCitation.Article[1].Journal.JournalIssue.PubDate = PubDate(0, "")
    /\ AcceptedArticles[i].MedlineCitation.Article[1].ArticleDate = ArticleDate(2020, 5)
    /\ records[i].PublicationDate = "5-2020"

\* The header row: the twelve column names, tab-separated, newline-terminated.
HeaderRow ==
  Join(<< "Title", "Item", "PMID", "PMCID", "License", "License Item", "Main Subjects",
          "Publication Date", "Publication", "ISSN", "ISSN item", "Publication Type" >>,
       "\t") \o "\n"

\* C6: once created, the output file is the header row followed by one row per
\* accepted article, in the order of the fetched articles (row i carries the
\* title, PMID and PMC id of the i-th accepted article); when main returns there
\* is a row for every accepted article; the header is there whatever the Records.
C6_HeaderAndRows ==
  /\ ~created => out = << >>
  /\ created =>
       /\ Len(out) >= 1
       /\ out[1] = HeaderRow
       /\ Len(out) <= 1 + Len(AcceptedArticles)
       /\ \A i \in 2..Len(out) :
            LET a == AcceptedArticles[i - 1]
                columns == Split(out[i], "\t")
            IN  /\ Len(columns) = 12
                /\ columns[1] = a.MedlineCitation.Article[1].ArticleTitle
                /\ columns[3] = a.MedlineCitation.PMID
                /\ columns[4] = FirstPMCID(a)
  /\ pc = "done" => Len(out) = 1 + Len(AcceptedArticles)

\* A finished run over two articles, the first dropped and the second accepted.
C6_Witness ==
  /\ pc = "done"
  /\ Len(fetch_resp) = 2
  /\ ~Licensed(fetch_resp[1])
  /\ Licensed(fetch_resp[2])
  /\ Len(out) = 2

\* The annotation of a subject id under the two resolution maps.
Annotation(id, drugs, diseases) ==
  CASE id \in DOMAIN drugs /\ id \in DOMAIN diseases ->
         " (" \o drugs[id] \o ", " \o diseases[id] \o ")"
    [] id \in DOMAIN drugs /\ id \notin DOMAIN diseases -> " (" \o drugs[id] \o ")"
    [] id \notin DOMAIN drugs /\ id \in DOMAIN diseases -> " (" \o diseases[id] \o ")"
    [] OTHER -> ""

\* C7: the subject column of every row is the subject names of its Record, each
\* followed by its annotation, joined with "; ".
C7_SubjectColumn ==
  \A i \in 2..Len(out) :
    LET subjects == records[i - 1].MainSubjects
    IN  Column(out[i], 7) =
          Join([j \in 1..Len(subjects) |->
                  subjects[j].Name \o Annotation(subjects[j].MeshID, items.drug, items.disease)],
               "; ")

\* A row with two subjects, each resolved in both maps.
C7_Witness ==
  \E i \in 2..Len(out) :
    Column(out[i], 7) = "Valproic Acid (Q3, Q4); Rett Syndrome (Q1, Q2)"

\* The calls of main that can fail, in the order main makes them.
ErrOrder == << "err", "rerr", "ferr", "perr", "ierr", "d1err", "d2err", "e" >>

NoDuplicates(s) == \A i, j \in 1..Len(s) : s[i] = s[j] => i = j

\* C9: the PMC-id list handed to PMCIDsToWDItem holds exactly the non-empty PMC
\* ids of the Records, each once.
C9_PMCWorklistOfAccepted ==
  \A k \in 1..Len(calls) :
    calls[k].fn = "PMCIDsToWDItem" =>
      /\ Range(calls[k].ids) = {records[i].PMCID : i \in 1..Len(records)} \ {""}
      /\ NoDuplicates(calls[k].ids)

\* The worklist of a resolution function, as it is now.
WorklistOf(fn) ==
  CASE fn = "PMCIDsToWDItem" -> pmcid_list
    [] fn = "ISSNsToWDItem" -> issn_list
    [] fn \in {"DrugsToWDItem", "DiseasesToWDItem"} -> main_subject_list

\* Every call was issued after the loop had passed every article, with the
\* worklist as it still is.
CallsAfterThePass ==
  \A k \in 1..Len(calls) :
    /\ idx = Len(fetch_resp)
    /\ calls[k].ids = WorklistOf(calls[k].fn)

\* C10 as stated: a finished run has issued exactly three resolution calls, each
\* after the pass and with the completed worklist.
C10_ThreeCalls ==
  /\ CallsAfterThePass
  /\ pc = "done" => Len(calls) = 3

\* C10 amended: a run that reaches the output phase has issued exactly four
\* resolution calls, for the PMC ids, for the ISSNs, and two for the subject ids
\* (drugs, diseases), each after the pass and with the completed worklist.
C10_FourCalls ==
  /\ CallsAfterThePass
  /\ pc \in {"Create", "Write", "done"} =>
       [k \in 1..Len(calls) |-> calls[k].fn] =
         << "PMCIDsToWDItem", "ISSNsToWDItem", "DrugsToWDItem", "DiseasesToWDItem" >>

\* A finished run over two articles, both accepted, with non-empty worklists.
C10_Witness ==
  /\ pc = "done"
  /\ Len(fetch_resp) = 2
  /\ Len(records) = 2
  /\ Len(calls) = 4
  /\ calls[1].ids # << >>
  /\ calls[3].ids # << >>

====
